---- MODULE Spec2Model ----
(***************************************************************************)
(* Model of the building tools of minecraft-mcp-server                     *)
(* (src/src/tools/building.ts): the single-block placement helper          *)
(* placeBlockAt and the five tool handlers build-wall, build-floor,        *)
(* build-box, fill-area and clear-area.                                    *)
(*                                                                         *)
(* A handler is an async function.  Its code between two awaits is one or  *)
(* more steps of the model; every awaited bot call (pathfinder.goto,       *)
(* lookAt, placeBlock, dig) is issued in one step and settled (resolved or *)
(* rejected by the bot) in a later one.  The bot is the environment:       *)
(* whether a call resolves or rejects, what canSeeBlock and canDigBlock    *)
(* answer and whether blockAt throws are chosen nondeterministically.      *)
(* bot.blockAt returning null is handled by the code exactly as air        *)
(* (lines 47, 65, 327), so "air" stands for both.                          *)
(***************************************************************************)
EXTENDS Integers, Sequences, FiniteSets, TLC

(***************************************************************************)
(* Bounds of the model.                                                    *)
(***************************************************************************)
MaxLength    == 3   \* wall length in 0..MaxLength
MaxHeight    == 2   \* wall height in 0..MaxHeight
MaxThickness == 2   \* wall thickness in 0..MaxThickness
MaxWidth     == 2   \* floor width and length in 0..MaxWidth
MaxCorner    == 2   \* box / fill / clear corners in {0, MaxCorner} per axis
MaxBusy      == 4   \* shapes of at most MaxBusy cells run among the Seeds
MaxOnFloor   == 6   \* walls of at most MaxOnFloor cells run on FloorWorld
MaxLive      == 3   \* the shapes of LiveSpec have at most MaxLive cells

Invs == {1, 2}       \* invocation ids; two handlers may be in flight

Directions     == {"north", "south", "east", "west"}
PlacementTools == {"build-wall", "build-floor", "build-box", "fill-area"}
END            == <<>>        \* the loop nest has run off its end
NoPos          == <<>>

Min(a, b) == IF a < b THEN a ELSE b
Max(a, b) == IF a > b THEN a ELSE b

Scaled(v, k) == <<v[1] * k, v[2] * k, v[3] * k>>

Plus(p, v) == <<p[1] + v[1], p[2] + v[2], p[3] + v[3]>>

(* Mutant: the vector of "down" has the wrong sign. *)
facesDownFlipped ==
  << [direction |-> "down",  vector |-> <<0, 1, 0>>],
     [direction |-> "north", vector |-> <<0, 0, -1>>],
     [direction |-> "south", vector |-> <<0, 0, 1>>],
     [direction |-> "east",  vector |-> <<1, 0, 0>>],
     [direction |-> "west",  vector |-> <<-1, 0, 0>>],
     [direction |-> "up",    vector |-> <<0, 1, 0>>] >>

(***************************************************************************)
(* placeBlockAt's candidate faces, in the order the loop tries them        *)
(* (lines 52-59).                                                          *)
(***************************************************************************)
faces ==
  << [direction |-> "down",  vector |-> <<0, -1, 0>>],
     [direction |-> "north", vector |-> <<0, 0, -1>>],
     [direction |-> "south", vector |-> <<0, 0, 1>>],
     [direction |-> "east",  vector |-> <<1, 0, 0>>],
     [direction |-> "west",  vector |-> <<-1, 0, 0>>],
     [direction |-> "up",    vector |-> <<0, 1, 0>>] >>

(***************************************************************************)
(* The loop nests of the handlers.  Every handler runs (up to) three       *)
(* nested for loops; LoopLo/LoopHi are the inclusive ranges of the loop    *)
(* variables, outermost first.  build-floor has no loop over y: its        *)
(* middle range is the single value centerY.                               *)
(***************************************************************************)
deltaX(direction) ==
  CASE direction = "east" -> 1 [] direction = "west" -> -1 [] OTHER -> 0

deltaZ(direction) ==
  CASE direction = "south" -> 1 [] direction = "north" -> -1 [] OTHER -> 0

(* Mutant: the half is rounded up instead of down. *)
halfWidthRoundsUp(a) == (a.width + 1) \div 2

halfWidth(a)  == a.width \div 2
halfLength(a) == a.length \div 2

(* Mutant: the corners are taken as given, without Math.min. *)
LoopLoAsGiven(a) ==
  CASE a.tool = "build-wall"  -> <<0, 0, 0>>
    [] a.tool = "build-floor" ->
         <<a.centerX - halfWidth(a), a.centerY, a.centerZ - halfLength(a)>>
    [] OTHER -> <<a.x1, a.y1, a.z1>>

LoopLo(a) ==
  CASE a.tool = "build-wall"  -> <<0, 0, 0>>
    [] a.tool = "build-floor" ->
         <<a.centerX - halfWidth(a), a.centerY, a.centerZ - halfLength(a)>>
    [] OTHER -> <<Min(a.x1, a.x2), Min(a.y1, a.y2), Min(a.z1, a.z2)>>

(* Mutant: the corner loops stop before the maximum (< instead of <=). *)
LoopHiExclusive(a) ==
  CASE a.tool = "build-wall"  -> <<a.length - 1, a.height - 1, a.thickness - 1>>
    [] a.tool = "build-floor" ->
         <<a.centerX + halfWidth(a), a.centerY, a.centerZ + halfLength(a)>>
    [] OTHER -> <<Max(a.x1, a.x2) - 1, Max(a.y1, a.y2) - 1, Max(a.z1, a.z2) - 1>>

LoopHi(a) ==
  CASE a.tool = "build-wall"  -> <<a.length - 1, a.height - 1, a.thickness - 1>>
    [] a.tool = "build-floor" ->
         <<a.centerX + halfWidth(a), a.centerY, a.centerZ + halfLength(a)>>
    [] OTHER -> <<Max(a.x1, a.x2), Max(a.y1, a.y2), Max(a.z1, a.z2)>>

(* The loop conditions: from loop variables v, the variables of the next   *)
(* execution of the innermost body, or END when the outermost loop exits.  *)
RECURSIVE LoopTest(_, _)
LoopTest(a, v) ==
  LET lo == LoopLo(a)
      hi == LoopHi(a)
  IN  IF v[1] > hi[1] THEN END
      ELSE IF v[2] > hi[2] THEN LoopTest(a, <<v[1] + 1, lo[2], lo[3]>>)
      ELSE IF v[3] > hi[3] THEN LoopTest(a, <<v[1], v[2] + 1, lo[3]>>)
      ELSE v

LoopStart(a)   == LoopTest(a, LoopLo(a))
LoopStep(a, v) == LoopTest(a, <<v[1], v[2], v[3] + 1>>)

(* Mutant: the thickness offset is taken along the wall (deltaX and deltaZ *)
(* not exchanged for t).                                                   *)
CoordThicknessAlongWall(a, v) ==
  IF a.tool = "build-wall"
    THEN <<a.startX + (deltaX(a.direction) * v[1]) + (deltaX(a.direction) * v[3]),
           a.startY + v[2],
           a.startZ + (deltaZ(a.direction) * v[1]) + (deltaZ(a.direction) * v[3])>>
    ELSE v

(* Mutant: the thickness offset is always towards positive X or Z. *)
CoordThicknessPositive(a, v) ==
  IF a.tool = "build-wall"
    THEN <<a.startX + (deltaX(a.direction) * v[1])
             + (deltaZ(a.direction) * deltaZ(a.direction) * v[3]),
           a.startY + v[2],
           a.startZ + (deltaZ(a.direction) * v[1])
             + (deltaX(a.direction) * deltaX(a.direction) * v[3])>>
    ELSE v

(* The coordinate the body works on. *)
Coord(a, v) ==
  IF a.tool = "build-wall"
    THEN <<a.startX + (deltaX(a.direction) * v[1]) + (deltaZ(a.direction) * v[3]),
           a.startY + v[2],
           a.startZ + (deltaZ(a.direction) * v[1]) + (deltaX(a.direction) * v[3])>>
    ELSE v

(* Mutant: the test of the z faces is missing. *)
isEdgeWithoutZ(a, v) ==
  LET lo == LoopLo(a)
      hi == LoopHi(a)
  IN  \/ v[1] = lo[1] \/ v[1] = hi[1]
      \/ v[2] = lo[2] \/ v[2] = hi[2]

isEdge(a, v) ==
  LET lo == LoopLo(a)
      hi == LoopHi(a)
  IN  \/ v[1] = lo[1] \/ v[1] = hi[1]
      \/ v[2] = lo[2] \/ v[2] = hi[2]
      \/ v[3] = lo[3] \/ v[3] = hi[3]

(* Does the body act on the cell (build-box only acts on surface cells)? *)
Acts(a, v) == a.tool = "build-box" => isEdge(a, v)

(* The coordinate sequence of a shape: the cells the loop nest acts on,    *)
(* in loop order, when it runs from start to end.                          *)
RECURSIVE CoordsFrom(_, _)
CoordsFrom(a, v) ==
  IF v = END THEN <<>>
  ELSE (IF Acts(a, v) THEN <<Coord(a, v)>> ELSE <<>>)
         \o CoordsFrom(a, LoopStep(a, v))

CoordSeq(a) == CoordsFrom(a, LoopStart(a))

(***************************************************************************)
(* Responses.  The text of a summary is modelled by the values the         *)
(* template string interpolates.                                           *)
(***************************************************************************)
createResponse(text) == [isError |-> FALSE, text |-> text]

createErrorResponse(error) == [isError |-> TRUE, text |-> <<"Failed", error>>]

totalBlocks(a) ==
  CASE a.tool = "build-wall"  -> a.length * a.height * a.thickness
    [] a.tool = "build-floor" -> a.width * a.length
    [] a.tool = "fill-area"   ->
         (Max(a.x1, a.x2) - Min(a.x1, a.x2) + 1)
           * (Max(a.y1, a.y2) - Min(a.y1, a.y2) + 1)
           * (Max(a.z1, a.z2) - Min(a.z1, a.z2) + 1)

SummaryText(s) ==
  CASE s.args.tool \in {"build-wall", "build-floor", "fill-area"} ->
         [blocksPlaced |-> s.blocksPlaced,
          totalBlocks  |-> totalBlocks(s.args),
          blocksFailed |-> s.blocksFailed]
    [] s.args.tool = "build-box" ->
         [blocksPlaced |-> s.blocksPlaced, blocksFailed |-> s.blocksFailed]
    [] s.args.tool = "clear-area" ->
         [blocksDug |-> s.blocksDug, blocksFailed |-> s.blocksFailed]

(***************************************************************************)
(* State.                                                                  *)
(*   world   the set of coordinates holding a non-air block                *)
(*   inv[i]  the frame of invocation i: its arguments (args), where it is  *)
(*           (pc, idx, face), its locals (blocksPlaced, blocksFailed,      *)
(*           blocksDug, placePos, blockPos, success), the bot calls it has *)
(*           issued and that are not settled (outstanding), the responses  *)
(*           it has returned, and a record of what it did: the cells it    *)
(*           has worked on (visited), the bot calls made for the current   *)
(*           cell (log, entries <<call, face, event>>, face 0 being the    *)
(*           cell itself) and whether a bot call has raised an error       *)
(*           (raised)                                                      *)
(***************************************************************************)
VARIABLES world, inv

vars == <<world, inv>>

NoArgs == [tool |-> "none"]

Idle == [args |-> NoArgs, pc |-> "idle", idx |-> END,
         blocksPlaced |-> 0, blocksFailed |-> 0, blocksDug |-> 0,
         placePos |-> NoPos, blockPos |-> NoPos, face |-> 0,
         success |-> FALSE,
         visited |-> <<>>, log |-> <<>>, calls |-> <<>>, outstanding |-> {},
         raised |-> FALSE, responses |-> <<>>, world0 |-> {},
         run |-> 1, firstPlaced |-> {}]

(* The frame of a handler that has just been called with arguments a in    *)
(* world w (world0 remembers the world at the call).                       *)
Called(a, w) ==
  [Idle EXCEPT !.args = a, !.pc = "loop", !.idx = LoopStart(a), !.world0 = w]

Upd(i, s) == inv' = [inv EXCEPT ![i] = s]

Logged(s, call, ev) == [s EXCEPT !.log = Append(@, <<call, s.face, ev>>)]

Raised(s, call) == [Logged(s, call, "throw") EXCEPT !.raised = TRUE]

(* An awaited bot call about the block at pos is issued: the handler is    *)
(* suspended on it.                                                        *)
Await(s, call, pos) ==
  [Logged(s, call, "issue") EXCEPT
     !.pc = call,
     !.outstanding = @ \cup {[call |-> call, at |-> pos]}]

(* The handler is suspended on the call, which the bot has not settled. *)
Suspended(s, call, pos) ==
  /\ s.pc = call
  /\ [call |-> call, at |-> pos] \in s.outstanding

(* The arguments the call is made with are recorded. *)
Issued(s, c) == [s EXCEPT !.calls = Append(@, c)]

(* new goals.GoalNear(x, y, z, range) *)
GoalNear(pos, range) == [x |-> pos[1], y |-> pos[2], z |-> pos[3], range |-> range]

(* The await of pathfinder.goto towards a goal near pos (lines 67-68 and   *)
(* 329-330).                                                               *)
AwaitGoto(s, at, pos) ==
  Issued(Await(s, "goto", at),
         [call |-> "goto", face |-> s.face, goal |-> GoalNear(pos, 2)])

(* The await of dig (line 333). *)
AwaitDig(s) ==
  Issued(Await(s, "dig", s.blockPos), [call |-> "dig", face |-> s.face, block |-> s.blockPos])

(* The bot resolves or rejects the awaited call. *)
Resolved(s, call, pos) ==
  [Logged(s, call, "resolve") EXCEPT
     !.outstanding = @ \ {[call |-> call, at |-> pos]}]

Rejected(s, call, pos) ==
  [Logged(s, call, "reject") EXCEPT
     !.outstanding = @ \ {[call |-> call, at |-> pos]},
     !.raised = TRUE]

(* A handler's own catch (lines 142-144, 185-187, 240-242, 290-292,        *)
(* 347-349): the error becomes the response.  No step of the handlers      *)
(* reaches it: every call that can throw is inside placeBlockAt's try or   *)
(* clear-area's inner try.                                                 *)
HandlerCatch(s, error) ==
  [s EXCEPT !.responses = Append(@, createErrorResponse(error)),
            !.pc = "done"]

(***************************************************************************)
(* placeBlockAt (lines 42-86).                                             *)
(***************************************************************************)
(* placeBlockAt returns. *)
Return(s, value) == [s EXCEPT !.success = value, !.pc = "tally"]

(* Mutant: placeBlockAt without its outer try: the error reaches the       *)
(* handler's catch.                                                        *)
CatchRethrows(s) == HandlerCatch(s, "error")

(* The outer catch (lines 83-85). *)
Catch(s) == Return(s, FALSE)

(* The inner catch around placeBlock (lines 76-78): continue. *)
CatchPlaceError(s) == [s EXCEPT !.face = @ + 1, !.pc = "face"]

(* Mutant: a placed block does not end the loop over the faces. *)
AfterPlaceContinues(s) == CatchPlaceError(s)

(* placeBlock has resolved (line 75). *)
AfterPlace(s) == Return(s, TRUE)

(* Mutant: placeBlock is given the face offset itself, not its inverse. *)
AwaitPlaceBlockFaceNotInverted(s) ==
  Issued(Await(s, "placeBlock", s.placePos),
         [call |-> "placeBlock", face |-> s.face,
          referenceBlock |-> Plus(s.placePos, faces[s.face].vector),
          faceVector |-> faces[s.face].vector])

(* Line 74: the await of placeBlock(referenceBlock, face.vector.scaled(-1)). *)
AwaitPlaceBlock(s) ==
  Issued(Await(s, "placeBlock", s.placePos),
         [call |-> "placeBlock", face |-> s.face,
          referenceBlock |-> Plus(s.placePos, faces[s.face].vector),
          faceVector |-> Scaled(faces[s.face].vector, -1)])

(* Mutant: lookAt is called without await, placeBlock right after it. *)
AwaitLookAtNotAwaited(s) ==
  AwaitPlaceBlock([Logged(s, "lookAt", "issue") EXCEPT
                     !.outstanding = @ \cup {[call |-> "lookAt", at |-> s.placePos]}])

(* Line 71: the await of lookAt(placePos, true). *)
AwaitLookAt(s) ==
  Issued(Await(s, "lookAt", s.placePos),
         [call |-> "lookAt", face |-> s.face, point |-> s.placePos, force |-> TRUE])

(* Mutant: the occupied target is not given up. *)
placeBlockAtNoCheck(i) ==
  LET s == inv[i] IN
  /\ s.pc = "placeBlockAt"
  /\ \E q \in {"ok", "throw"} :
       Upd(i, IF q = "throw" THEN Catch(Raised(s, "blockAt"))
              ELSE [Logged(s, "blockAt", IF s.placePos \in world THEN "solid" ELSE "air")
                      EXCEPT !.face = 1, !.pc = "face"])
  /\ UNCHANGED world

(* Lines 43-49: the target is queried; an occupied target is given up. *)
placeBlockAt(i) ==
  LET s == inv[i] IN
  /\ s.pc = "placeBlockAt"
  /\ \E q \in {"ok", "throw"} :
       Upd(i, IF q = "throw" THEN Catch(Raised(s, "blockAt"))
              ELSE IF s.placePos \in world
                THEN Return(Logged(s, "blockAt", "solid"), FALSE)
                ELSE [Logged(s, "blockAt", "air") EXCEPT !.face = 1, !.pc = "face"])
  /\ UNCHANGED world

(* Lines 61-69 and 82: one turn of the loop over the faces, up to its      *)
(* first await.                                                            *)
TryFace(i) ==
  LET s == inv[i] IN
  /\ s.pc = "face"
  /\ IF s.face > Len(faces)
       THEN Upd(i, Return(s, FALSE))
       ELSE LET referencePos == Plus(s.placePos, faces[s.face].vector) IN
            \E q \in {"ok", "throw"}, canSeeBlock \in BOOLEAN :
              Upd(i, IF q = "throw" THEN Catch(Raised(s, "blockAt"))
                     ELSE IF referencePos \notin world
                       THEN [Logged(s, "blockAt", "air") EXCEPT !.face = @ + 1]
                     ELSE IF ~canSeeBlock
                       THEN AwaitGoto(Logged(Logged(s, "blockAt", "solid"),
                                             "canSeeBlock", "no"),
                                      s.placePos, referencePos)
                       ELSE AwaitLookAt(Logged(Logged(s, "blockAt", "solid"),
                                               "canSeeBlock", "yes")))
  /\ UNCHANGED world

(* Line 68 settles. *)
GotoDone(i) ==
  LET s == inv[i] IN
  /\ s.args.tool \in PlacementTools
  /\ Suspended(s, "goto", s.placePos)
  /\ \E ok \in BOOLEAN :
       Upd(i, IF ok THEN AwaitLookAt(Resolved(s, "goto", s.placePos))
                    ELSE Catch(Rejected(s, "goto", s.placePos)))
  /\ UNCHANGED world

(* Line 71 settles. *)
LookAtDone(i) ==
  LET s == inv[i] IN
  /\ Suspended(s, "lookAt", s.placePos)
  /\ \E ok \in BOOLEAN :
       Upd(i, IF ok THEN AwaitPlaceBlock(Resolved(s, "lookAt", s.placePos))
                    ELSE Catch(Rejected(s, "lookAt", s.placePos)))
  /\ UNCHANGED world

(* Line 74 settles.  A placeBlock that resolves has put the block at the   *)
(* face of the reference block it was given, which is placePos.            *)
PlaceBlockDone(i) ==
  LET s == inv[i] IN
  /\ Suspended(s, "placeBlock", s.placePos)
  /\ \E ok \in BOOLEAN :
       IF ok
         THEN /\ Upd(i, AfterPlace(Resolved(s, "placeBlock", s.placePos)))
              /\ world' = world \cup {s.placePos}
         ELSE /\ Upd(i, CatchPlaceError(Rejected(s, "placeBlock", s.placePos)))
              /\ UNCHANGED world

(***************************************************************************)
(* The handlers of build-wall, build-floor, build-box and fill-area.       *)
(***************************************************************************)
(* The loop body up to the await of placeBlockAt (lines 119-126, 168-170,  *)
(* 216-225, 271-274).                                                      *)
BuildLoop(i) ==
  LET s == inv[i] IN
  /\ s.pc = "loop"
  /\ s.args.tool \in PlacementTools
  /\ s.idx # END
  /\ Upd(i, IF Acts(s.args, s.idx)
              THEN [s EXCEPT !.pc = "placeBlockAt",
                             !.placePos = Coord(s.args, s.idx),
                             !.visited = Append(@, Coord(s.args, s.idx)),
                             !.face = 0,
                             !.log = <<>>,
                             !.calls = <<>>]
              ELSE [s EXCEPT !.idx = LoopStep(s.args, s.idx)])
  /\ UNCHANGED world

(* Mutant: a cell that was not placed is not counted. *)
TallyDropsFailures(i) ==
  LET s == inv[i] IN
  /\ s.pc = "tally"
  /\ Upd(i, [s EXCEPT !.blocksPlaced = IF s.success THEN @ + 1 ELSE @,
                      !.idx = LoopStep(s.args, s.idx),
                      !.pc = "loop"])
  /\ UNCHANGED world

(* Mutant: the counters are shared by all invocations instead of being    *)
(* locals of the handler.                                                  *)
TallySharedCounters(i) ==
  LET s == inv[i] IN
  /\ s.pc = "tally"
  /\ inv' = [j \in Invs |->
               IF j = i
                 THEN [s EXCEPT !.blocksPlaced = IF s.success THEN @ + 1 ELSE @,
                                !.blocksFailed = IF s.success THEN @ ELSE @ + 1,
                                !.idx = LoopStep(s.args, s.idx),
                                !.pc = "loop"]
                 ELSE [inv[j] EXCEPT
                         !.blocksPlaced = IF s.success THEN @ + 1 ELSE @,
                         !.blocksFailed = IF s.success THEN @ ELSE @ + 1]]
  /\ UNCHANGED world

(* Lines 127-131 (171-175, 226-230, 275-279) and the loop increment. *)
Tally(i) ==
  LET s == inv[i] IN
  /\ s.pc = "tally"
  /\ Upd(i, [s EXCEPT !.blocksPlaced = IF s.success THEN @ + 1 ELSE @,
                      !.blocksFailed = IF s.success THEN @ ELSE @ + 1,
                      !.idx = LoopStep(s.args, s.idx),
                      !.pc = "loop"])
  /\ UNCHANGED world

(***************************************************************************)
(* The clear-area handler (lines 307-350).                                 *)
(***************************************************************************)
(* Mutant: the catch is outside the loops, so an error ends them. *)
ClearCatchBreaks(s) ==
  [s EXCEPT !.blocksFailed = @ + 1, !.idx = END, !.pc = "loop"]

(* Mutant: the catch does not count the cell. *)
ClearCatchUncounted(s) ==
  [s EXCEPT !.idx = LoopStep(s.args, s.idx), !.pc = "loop"]

(* The inner catch (lines 336-338) and the loop increment. *)
ClearCatch(s) ==
  [s EXCEPT !.blocksFailed = @ + 1,
            !.idx = LoopStep(s.args, s.idx),
            !.pc = "loop"]

(* Line 334 and the loop increment. *)
ClearDug(s) ==
  [s EXCEPT !.blocksDug = @ + 1,
            !.idx = LoopStep(s.args, s.idx),
            !.pc = "loop"]

(* Mutant: blocksDug++ is outside the if, so air cells count as dug. *)
ClearSkipCounted(s) == ClearDug(s)

(* An air cell: the body does nothing (line 327 is false). *)
ClearSkip(s) == [s EXCEPT !.idx = LoopStep(s.args, s.idx), !.pc = "loop"]

(* Lines 320-333: the loop body up to its first await. *)
ClearLoop(i) ==
  LET s  == inv[i]
      s1 == [s EXCEPT !.blockPos = Coord(s.args, s.idx),
                      !.visited = Append(@, Coord(s.args, s.idx)),
                      !.face = 0,
                      !.log = <<>>,
                      !.calls = <<>>]
      solid == Logged(s1, "blockAt", "solid")
  IN
  /\ s.pc = "loop"
  /\ s.args.tool = "clear-area"
  /\ s.idx # END
  /\ \E q \in {"ok", "throw"}, canDigBlock \in BOOLEAN, canSeeBlock \in BOOLEAN :
       Upd(i, IF q = "throw" THEN ClearCatch(Raised(s1, "blockAt"))
              ELSE IF s1.blockPos \notin world
                THEN ClearSkip(Logged(s1, "blockAt", "air"))
              ELSE IF ~canDigBlock
                THEN AwaitGoto(Logged(solid, "canDigBlock", "no"),
                               s1.blockPos, s1.blockPos)
              ELSE IF ~canSeeBlock
                THEN AwaitGoto(Logged(Logged(solid, "canDigBlock", "yes"),
                                      "canSeeBlock", "no"),
                               s1.blockPos, s1.blockPos)
                ELSE AwaitDig(Logged(Logged(solid, "canDigBlock", "yes"),
                                     "canSeeBlock", "yes")))
  /\ UNCHANGED world

(* Line 330 settles. *)
ClearGotoDone(i) ==
  LET s == inv[i] IN
  /\ s.args.tool = "clear-area"
  /\ Suspended(s, "goto", s.blockPos)
  /\ \E ok \in BOOLEAN :
       Upd(i, IF ok THEN AwaitDig(Resolved(s, "goto", s.blockPos))
                    ELSE ClearCatch(Rejected(s, "goto", s.blockPos)))
  /\ UNCHANGED world

(* Line 333 settles.  A dig that resolves has removed the block. *)
DigDone(i) ==
  LET s == inv[i] IN
  /\ Suspended(s, "dig", s.blockPos)
  /\ \E ok \in BOOLEAN :
       IF ok
         THEN /\ Upd(i, ClearDug(Resolved(s, "dig", s.blockPos)))
              /\ world' = world \ {s.blockPos}
         ELSE /\ Upd(i, ClearCatch(Rejected(s, "dig", s.blockPos)))
              /\ UNCHANGED world

(***************************************************************************)
(* The loop nest has ended: the handler returns its summary (lines         *)
(* 136-141, 179-184, 236-239, 284-289, 343-346).                           *)
(***************************************************************************)
Respond(i) ==
  LET s == inv[i] IN
  /\ s.pc = "loop"
  /\ s.idx = END
  /\ Upd(i, [s EXCEPT !.responses = Append(@, createResponse(SummaryText(s))),
                      !.pc = "done"])
  /\ UNCHANGED world

(***************************************************************************)
(* The invocations and the worlds they run in.                             *)
(***************************************************************************)
WallArgs ==
  {[tool |-> "build-wall", startX |-> 0, startY |-> 0, startZ |-> 0,
    direction |-> d, length |-> l, height |-> h, thickness |-> t] :
     d \in Directions, l \in 0..MaxLength, h \in 0..MaxHeight,
     t \in 0..MaxThickness}

FloorArgs ==
  {[tool |-> "build-floor", centerX |-> 0, centerY |-> 0, centerZ |-> 0,
    width |-> w, length |-> l] : w \in 0..MaxWidth, l \in 0..MaxWidth}

Corners == {0, MaxCorner}

CornerArgs(tool) ==
  {[tool |-> tool, x1 |-> x1, y1 |-> y1, z1 |-> z1,
    x2 |-> x2, y2 |-> y2, z2 |-> z2] :
     x1 \in Corners, y1 \in Corners, z1 \in Corners,
     x2 \in Corners, y2 \in Corners, z2 \in Corners}

Invocations ==
  WallArgs \cup FloorArgs \cup CornerArgs("build-box")
    \cup CornerArgs("fill-area") \cup CornerArgs("clear-area")

(* The blocks that may stand near the origin before a handler runs. *)
Seeds == {<<0, -1, 0>>, <<0, 0, 0>>, <<1, 0, 0>>}

(* A solid floor below y = 0, as far as a shape of the model reaches. *)
Reach == Max(Max(MaxLength, MaxThickness), Max(MaxWidth, MaxCorner)) + 1

FloorWorld == {<<x, -1, z>> : x \in (0 - Reach)..Reach, z \in (0 - Reach)..Reach}

Worlds(a) ==
  {{}} \cup (IF Len(CoordSeq(a)) <= MaxBusy THEN SUBSET Seeds ELSE {})
       \cup (IF a.tool = "build-wall" /\ Len(CoordSeq(a)) <= MaxOnFloor
             THEN {FloorWorld} ELSE {})

(* One handler is called. *)
Init ==
  \E a \in Invocations :
    /\ world \in Worlds(a)
    /\ inv = [i \in Invs |-> IF i = 1 THEN Called(a, world) ELSE Idle]

Step(i) ==
  \/ BuildLoop(i)
  \/ placeBlockAt(i)
  \/ TryFace(i)
  \/ GotoDone(i)
  \/ LookAtDone(i)
  \/ PlaceBlockDone(i)
  \/ Tally(i)
  \/ ClearLoop(i)
  \/ ClearGotoDone(i)
  \/ DigDone(i)
  \/ Respond(i)

Next == \E i \in Invs : Step(i)

Spec == Init /\ [][Next]_vars

(***************************************************************************)
(* The loop nests alone: the coordinates a handler works through, with the *)
(* body's bot calls left out.  The inputs are wider than those of Spec:    *)
(* two origins, and per axis every corner pair 0..k and k..0.              *)
(***************************************************************************)
Origins == {<<0, 0, 0>>, <<2, 1, -1>>}

ShapeWallArgs ==
  {[tool |-> "build-wall", startX |-> o[1], startY |-> o[2], startZ |-> o[3],
    direction |-> d, length |-> l, height |-> h, thickness |-> t] :
     o \in Origins, d \in Directions, l \in 0..MaxLength, h \in 0..MaxHeight,
     t \in 0..MaxThickness}

ShapeFloorArgs ==
  {[tool |-> "build-floor", centerX |-> o[1], centerY |-> o[2], centerZ |-> o[3],
    width |-> w, length |-> l] :
     o \in Origins, w \in 0..MaxWidth, l \in 0..MaxWidth}

AxisPairs ==
  {<<0, k>> : k \in 0..MaxCorner} \cup {<<k, 0>> : k \in 0..MaxCorner}

ShapeCornerArgs(tool) ==
  {[tool |-> tool, x1 |-> px[1], y1 |-> py[1], z1 |-> pz[1],
    x2 |-> px[2], y2 |-> py[2], z2 |-> pz[2]] :
     px \in AxisPairs, py \in AxisPairs, pz \in AxisPairs}

ShapeInputs ==
  ShapeWallArgs \cup ShapeFloorArgs \cup ShapeCornerArgs("build-box")
    \cup ShapeCornerArgs("fill-area") \cup ShapeCornerArgs("clear-area")

ShapeInit ==
  \E a \in ShapeInputs :
    /\ world = {}
    /\ inv = [i \in Invs |-> IF i = 1 THEN Called(a, world) ELSE Idle]

(* One execution of the innermost loop body and the loop increment. *)
Iterate(i) ==
  LET s == inv[i] IN
  /\ s.pc = "loop"
  /\ s.idx # END
  /\ Upd(i, [s EXCEPT !.visited = IF Acts(s.args, s.idx)
                                    THEN Append(@, Coord(s.args, s.idx))
                                    ELSE @,
                      !.idx = LoopStep(s.args, s.idx)])
  /\ UNCHANGED world

(* The outermost loop exits. *)
IterateEnd(i) ==
  LET s == inv[i] IN
  /\ s.pc = "loop"
  /\ s.idx = END
  /\ Upd(i, [s EXCEPT !.pc = "iterated"])
  /\ UNCHANGED world

ShapeNext == \E i \in Invs : Iterate(i) \/ IterateEnd(i)

ShapeSpec == ShapeInit /\ [][ShapeNext]_vars

(* The same handlers on the shapes of at most MaxLive cells, in a world   *)
(* with blocks to place against and to dig, with the scheduling a run has: *)
(* a handler that can take a step takes it, and the bot settles every call *)
(* it was given.                                                           *)
LiveWorlds == {Seeds, Seeds \ {<<0, 0, 0>>}}

LiveInit ==
  \E a \in {b \in Invocations : Len(CoordSeq(b)) <= MaxLive} :
    /\ world \in LiveWorlds
    /\ inv = [i \in Invs |-> IF i = 1 THEN Called(a, world) ELSE Idle]

LiveSpec == LiveInit /\ [][Next]_vars /\ \A i \in Invs : WF_vars(Step(i))

(***************************************************************************)
(* The same tool called a second time with the same arguments, right after *)
(* the first call has returned.  firstPlaced remembers the cells the first *)
(* call placed: it was the only one to change the world, so they are the   *)
(* cells the world has gained since that call.                             *)
(***************************************************************************)
Rerun(i) ==
  LET s == inv[i] IN
  /\ s.pc = "done"
  /\ s.run = 1
  /\ Upd(i, [Called(s.args, world) EXCEPT !.run = 2,
                                          !.firstPlaced = world \ s.world0])
  /\ UNCHANGED world

RerunNext == Next \/ \E i \in Invs : Rerun(i)

RerunSpec == LiveInit /\ [][RerunNext]_vars

(***************************************************************************)
(* Two invocations in flight at once on the same bot and world: the second *)
(* request arrives while the first handler is suspended, and the steps of  *)
(* the two handlers interleave at the awaits.  Shapes of MaxPair cells     *)
(* along x from the origin, so that the two work on the same cells.        *)
(***************************************************************************)
MaxPair == 2

PairArgs ==
  { [tool |-> "build-wall", startX |-> 0, startY |-> 0, startZ |-> 0,
     direction |-> "east", length |-> MaxPair, height |-> 1, thickness |-> 1] }
  \cup { [tool |-> t, x1 |-> 0, y1 |-> 0, z1 |-> 0,
          x2 |-> MaxPair - 1, y2 |-> 0, z2 |-> 0] : t \in {"fill-area", "clear-area"} }

PairInit ==
  \E a \in PairArgs, b \in PairArgs :
    /\ world = Seeds \ {<<0, 0, 0>>}
    /\ inv = [i \in Invs |-> IF i = 1 THEN Called(a, world) ELSE Called(b, world)]

PairSpec == PairInit /\ [][Next]_vars

(***************************************************************************)
(* Properties.                                                             *)
(***************************************************************************)
Started == {i \in Invs : inv[i].pc # "idle"}

(* The handler is inside placeBlockAt or about to tally its result. *)
InCell(s) ==
  s.pc \in {"placeBlockAt", "face", "goto", "lookAt", "placeBlock", "tally"}

Summary(s) == s.responses[1].text

LogHas(s, call, ev) ==
  \E k \in 1..Len(s.log) : s.log[k][1] = call /\ s.log[k][3] = ev

(* C1: a placement handler (build-wall, build-floor, build-box, fill-area) *)
(* tallies every coordinate it has finished exactly once, as placed or as  *)
(* failed; the summary it returns has blocksPlaced + blocksFailed equal to *)
(* the number of coordinates of the shape's sequence, whatever the world   *)
(* and whatever the bot calls did.                                         *)
C1_PlacedPlusFailedIsSequenceLength ==
  \A i \in Started :
    LET s == inv[i] IN
    s.args.tool \in PlacementTools =>
      /\ s.blocksPlaced + s.blocksFailed
           = Len(s.visited) - (IF InCell(s) THEN 1 ELSE 0)
      /\ s.pc = "done" =>
           /\ Len(s.responses) = 1
           /\ ~s.responses[1].isError
           /\ Summary(s).blocksPlaced + Summary(s).blocksFailed
                = Len(CoordSeq(s.args))

C1_Witness ==
  \E i \in Started :
    LET s == inv[i] IN
    /\ s.args.tool \in PlacementTools
    /\ s.pc = "done"
    /\ Summary(s).blocksPlaced >= 1
    /\ Summary(s).blocksFailed >= 1
    /\ s.raised

(* C2: for build-wall, build-floor and fill-area the total block count of  *)
(* the summary is the number of coordinates the handler iterated.          *)
C2_TotalIsSequenceLength ==
  \A i \in Started :
    LET s == inv[i] IN
    (s.pc = "done" /\ s.args.tool \in {"build-wall", "build-floor", "fill-area"})
      => Summary(s).totalBlocks = Len(s.visited)

(* C3: when the move request or the place action of one face raises an     *)
(* error (and nothing else goes wrong for the coordinate), only that face  *)
(* fails: either the block is placed against a later face, or every later  *)
(* face has been tried by the time placeBlockAt returns.                   *)
C3_ErrorFailsOnlyThatFace ==
  \A i \in Started :
    LET s == inv[i] IN
    ( /\ s.args.tool \in PlacementTools
      /\ s.pc = "tally"
      /\ ~LogHas(s, "blockAt", "throw")
      /\ ~LogHas(s, "lookAt", "reject") ) =>
      \A k \in 1..Len(s.log) :
        (s.log[k][1] \in {"goto", "placeBlock"} /\ s.log[k][3] = "reject") =>
          \/ s.success
          \/ \A g \in (s.log[k][2] + 1)..Len(faces) :
               \E m \in (k + 1)..Len(s.log) :
                 s.log[m][1] = "blockAt" /\ s.log[m][2] = g

(* C4: placeBlockAt tries the faces in the order down, north, south, east, *)
(* west, up, and the place action that succeeds is the last bot call it    *)
(* makes for the coordinate: it returns true at once, with no query, move, *)
(* look or place for a later face.                                         *)
C4_FirstSuccessfulFaceWins ==
  \A i \in Started :
    LET s == inv[i] IN
    s.args.tool \in PlacementTools =>
      /\ [k \in 1..Len(faces) |-> faces[k].direction]
           = <<"down", "north", "south", "east", "west", "up">>
      /\ \A k \in 1..Len(s.log) : \A m \in (k + 1)..Len(s.log) :
           /\ s.log[k][2] <= s.log[m][2]
           /\ (s.log[k][1] = "blockAt" /\ s.log[m][1] = "blockAt")
                => s.log[k][2] < s.log[m][2]
      /\ \A k \in 1..Len(s.log) :
           (s.log[k][1] = "placeBlock" /\ s.log[k][3] = "resolve") =>
             /\ k = Len(s.log)
             /\ s.success
             /\ s.pc \in {"tally", "loop", "done"}

C4_Witness ==
  \E i \in Started :
    LET s == inv[i] IN
    /\ s.pc = "tally"
    /\ s.success
    /\ s.log[Len(s.log)] = <<"placeBlock", 4, "resolve">>
    /\ \E k \in 1..Len(s.log) : s.log[k] = <<"placeBlock", 1, "reject">>

(* C5: when placeBlockAt is called on a coordinate whose block is not air, *)
(* it returns false (the cell is not placed) in that step, has issued no   *)
(* move, look-at or place action, and the world is unchanged.              *)
C5_OccupiedTargetIsSkipped ==
  [][ \A i \in Started :
        ( /\ inv[i].pc = "placeBlockAt"
          /\ inv[i].placePos \in world
          /\ inv'[i] # inv[i] ) =>
          /\ inv'[i].pc = "tally"
          /\ ~inv'[i].success
          /\ inv'[i].outstanding = {}
          /\ \A k \in 1..Len(inv'[i].log) : inv'[i].log[k][1] = "blockAt"
          /\ world' = world ]_vars

C5_Witness ==
  \E i \in Started :
    LET s == inv[i] IN
    /\ s.pc = "tally"
    /\ ~s.success
    /\ s.placePos \in world
    /\ s.log = << <<"blockAt", 0, "solid">> >>

(* The wall of the end-to-end case: origin (0,0,0), east, 3 long, 2 high,  *)
(* 1 thick.                                                                *)
WallFixture ==
  [tool |-> "build-wall", startX |-> 0, startY |-> 0, startZ |-> 0,
   direction |-> "east", length |-> 3, height |-> 2, thickness |-> 1]

(* The wall handler has run to its end on a world that was air except for  *)
(* the floor below y = 0, and no bot call raised an error.                 *)
WallFixtureDone(s) ==
  /\ s.args = WallFixture
  /\ s.world0 = FloorWorld
  /\ s.pc = "done"
  /\ ~s.raised

(* C6 as stated: the wall of the end-to-end case, on a world that is air   *)
(* except for a solid floor below y = 0 and where every place action       *)
(* succeeds, yields 3 placed (the h = 0 row) and 3 failed (the h = 1 row). *)
C6_ThreePlacedThreeFailed ==
  \A i \in Started :
    WallFixtureDone(inv[i]) =>
      /\ Summary(inv[i]).blocksPlaced = 3
      /\ Summary(inv[i]).blocksFailed = 3

(* C6 amended: on that world, when no bot call raises an error, the wall   *)
(* yields 6 placed and 0 failed: the loop runs h inside l, so each h = 1   *)
(* block is placed on the h = 0 block placed just before it.               *)
C6_SixPlacedNoneFailed ==
  \A i \in Started :
    WallFixtureDone(inv[i]) =>
      /\ Summary(inv[i]).blocksPlaced = 6
      /\ Summary(inv[i]).blocksFailed = 0
      /\ Summary(inv[i]).totalBlocks = 6
      /\ world = FloorWorld \cup {<<x, y, 0>> : x \in 0..2, y \in 0..1}

C6_Witness == \E i \in Started : WallFixtureDone(inv[i])

IsPrefix(p, q) == Len(p) <= Len(q) /\ \A k \in 1..Len(p) : p[k] = q[k]

(* C7: a handler never stops early on a coordinate's failure.  When the    *)
(* bot settles every call, the handler returns; the coordinates it has     *)
(* worked on are at all times a prefix of the shape's sequence, and when   *)
(* it returns they are the whole sequence, each once and in order.         *)
C7_RunsThroughTheWholeSequence ==
  /\ <>(\A i \in Invs : inv[i].pc \in {"idle", "done"})
  /\ [](\A i \in Started :
          /\ IsPrefix(inv[i].visited, CoordSeq(inv[i].args))
          /\ inv[i].pc = "done" => inv[i].visited = CoordSeq(inv[i].args))

C7_Witness ==
  \E i \in Started :
    LET s == inv[i] IN
    /\ s.pc = "done"
    /\ Len(s.visited) >= 3
    /\ s.raised
    /\ s.blocksFailed >= 2
    /\ s.blocksPlaced + s.blocksDug >= 1

(* C8: a handler has at most one bot call outstanding; it is suspended on  *)
(* that call, which is for the coordinate it is working on (the last one   *)
(* it started); whenever it is at the head of its loop, in the synchronous *)
(* part of placeBlockAt or done, nothing is outstanding.                   *)
C8_OneCallOutstanding ==
  \A i \in Started :
    LET s == inv[i] IN
    /\ Cardinality(s.outstanding) <= 1
    /\ \A o \in s.outstanding :
         /\ s.pc = o.call
         /\ s.visited # <<>>
         /\ o.at = s.visited[Len(s.visited)]
    /\ s.pc \in {"loop", "placeBlockAt", "face", "tally", "done"}
         => s.outstanding = {}
    /\ s.pc \in {"goto", "lookAt", "placeBlock", "dig"}
         => s.outstanding # {}

C8_Witness ==
  \E i \in Started :
    LET s == inv[i] IN
    /\ Len(s.visited) >= 2
    /\ s.outstanding = {[call |-> "placeBlock", at |-> s.visited[Len(s.visited)]]}

Range(q) == {q[k] : k \in 1..Len(q)}

C10_OneSummaryResponse ==
  \A i \in Started :
    LET s == inv[i] IN
    /\ Len(s.responses) = (IF s.pc = "done" THEN 1 ELSE 0)
    /\ s.pc = "done" =>
         /\ ~s.responses[1].isError
         /\ s.responses[1] = createResponse(SummaryText(s))

C10_Witness ==
  \E i \in Started :
    LET s == inv[i] IN
    /\ s.args.tool \in PlacementTools
    /\ s.pc = "done"
    /\ s.raised
    /\ LogHas(s, "goto", "reject")
    /\ ~s.responses[1].isError

(* The handlers whose loop nest has run to its end. *)
Iterated == {i \in Invs : inv[i].pc = "iterated"}

Distinct(q) == \A k \in 1..Len(q) : \A m \in (k + 1)..Len(q) : q[k] # q[m]

(* The unit vector (dx, dz) of a compass direction. *)
UnitVector(direction) ==
  CASE direction = "north" -> <<0, -1>>
    [] direction = "south" -> <<0, 1>>
    [] direction = "east"  -> <<1, 0>>
    [] direction = "west"  -> <<-1, 0>>

(* C11: for every direction and all positive length, height and thickness  *)
(* the wall loops visit length*height*thickness coordinates, pairwise      *)
(* distinct, which are exactly x = startX + dx*l + dz*t, y = startY + h,   *)
(* z = startZ + dz*l + dx*t for 0 <= l < length, 0 <= h < height,          *)
(* 0 <= t < thickness.                                                     *)
C11_WallCoordinates ==
  \A i \in Iterated :
    LET a  == inv[i].args
        q  == inv[i].visited
    IN
    (a.tool = "build-wall" /\ a.length > 0 /\ a.height > 0 /\ a.thickness > 0) =>
      LET dx == UnitVector(a.direction)[1]
          dz == UnitVector(a.direction)[2]
      IN
      /\ Len(q) = a.length * a.height * a.thickness
      /\ Distinct(q)
      /\ Range(q) = {<<a.startX + dx * l + dz * t,
                       a.startY + h,
                       a.startZ + dz * l + dx * t>> :
                       l \in 0..(a.length - 1), h \in 0..(a.height - 1),
                       t \in 0..(a.thickness - 1)}

C11_Witness ==
  \E i \in Iterated :
    LET a == inv[i].args IN
    /\ a.tool = "build-wall"
    /\ a.direction = "north"
    /\ a.startX # 0
    /\ a.length >= 3 /\ a.height >= 2 /\ a.thickness >= 2
    /\ Len(inv[i].visited) >= 12

(* The wall handlers whose loops have run, with positive sizes. *)
WallsIterated ==
  {i \in Iterated : /\ inv[i].args.tool = "build-wall"
                    /\ inv[i].args.length > 0
                    /\ inv[i].args.height > 0
                    /\ inv[i].args.thickness > 0}

(* Length advances along one horizontal axis only: the coordinates on the *)
(* other axis do not depend on l.                                          *)
LengthAlongZ(a, q) ==
  /\ {c[3] : c \in Range(q)} =
       {a.startZ + UnitVector(a.direction)[2] * l : l \in 0..(a.length - 1)}
  /\ Cardinality({c[1] : c \in Range(q)}) = a.thickness

LengthAlongX(a, q) ==
  /\ {c[1] : c \in Range(q)} =
       {a.startX + UnitVector(a.direction)[1] * l : l \in 0..(a.length - 1)}
  /\ Cardinality({c[3] : c \in Range(q)}) = a.thickness

(* C12 as stated: for north and south length advances along Z and every   *)
(* visited x satisfies startX <= x <= startX + thickness - 1; for east    *)
(* and west length advances along X and thickness is offset along Z.      *)
C12_ThicknessTowardsPositiveX ==
  \A i \in WallsIterated :
    LET a == inv[i].args
        q == inv[i].visited
    IN
    /\ a.direction \in {"north", "south"} =>
         /\ LengthAlongZ(a, q)
         /\ \A c \in Range(q) :
              a.startX <= c[1] /\ c[1] <= a.startX + a.thickness - 1
    /\ a.direction \in {"east", "west"} => LengthAlongX(a, q)

(* C12, amended: for north and south length advances along Z and the      *)
(* thickness layers are offset along X, towards positive X for south      *)
(* (startX <= x <= startX + thickness - 1) and towards negative X for     *)
(* north (startX - (thickness - 1) <= x <= startX); for east and west     *)
(* length advances along X and the thickness layers are offset along Z,   *)
(* towards positive Z for east and towards negative Z for west.           *)
C12_ThicknessFollowsTheOtherDelta ==
  \A i \in WallsIterated :
    LET a == inv[i].args
        q == inv[i].visited
    IN
    /\ a.direction \in {"north", "south"} => LengthAlongZ(a, q)
    /\ a.direction \in {"east", "west"} => LengthAlongX(a, q)
    /\ a.direction = "south" =>
         {c[1] : c \in Range(q)} = a.startX..(a.startX + a.thickness - 1)
    /\ a.direction = "north" =>
         {c[1] : c \in Range(q)} = (a.startX - (a.thickness - 1))..a.startX
    /\ a.direction = "east" =>
         {c[3] : c \in Range(q)} = a.startZ..(a.startZ + a.thickness - 1)
    /\ a.direction = "west" =>
         {c[3] : c \in Range(q)} = (a.startZ - (a.thickness - 1))..a.startZ

C12_Witness ==
  \E i \in WallsIterated :
    /\ inv[i].args.direction = "north"
    /\ inv[i].args.thickness = 2
    /\ inv[i].args.length = 2
    /\ \E c \in Range(inv[i].visited) : c[1] = inv[i].args.startX - 1

(* C13: the floor loops visit (2*floor(width/2)+1) * (2*floor(length/2)+1) *)
(* coordinates: every (x, z) with |x - centerX| <= floor(width/2) and      *)
(* |z - centerZ| <= floor(length/2), at y = centerY; a width or length of  *)
(* 0 or 1 gives a single cell on that axis.                                *)
C13_FloorCoordinates ==
  \A i \in Iterated :
    LET a == inv[i].args
        q == inv[i].visited
    IN
    a.tool = "build-floor" =>
      LET hw == a.width \div 2
          hl == a.length \div 2
      IN
      /\ Len(q) = (2 * hw + 1) * (2 * hl + 1)
      /\ Distinct(q)
      /\ Range(q) = {<<x, a.centerY, z>> :
                       x \in (a.centerX - hw)..(a.centerX + hw),
                       z \in (a.centerZ - hl)..(a.centerZ + hl)}
      /\ a.width \in {0, 1} => {c[1] : c \in Range(q)} = {a.centerX}
      /\ a.length \in {0, 1} => {c[3] : c \in Range(q)} = {a.centerZ}

C13_Witness ==
  \E i \in Iterated :
    /\ inv[i].args.tool = "build-floor"
    /\ inv[i].args.width = 1
    /\ inv[i].args.length = 2
    /\ inv[i].args.centerX # 0
    /\ Len(inv[i].visited) = 3

(* The cuboid spanned by two corners, and its cells that lie on none of   *)
(* the six bounding planes.                                                *)
Cuboid(a) ==
  {<<x, y, z>> : x \in Min(a.x1, a.x2)..Max(a.x1, a.x2),
                 y \in Min(a.y1, a.y2)..Max(a.y1, a.y2),
                 z \in Min(a.z1, a.z2)..Max(a.z1, a.z2)}

Interior(a) ==
  {c \in Cuboid(a) : /\ Min(a.x1, a.x2) < c[1] /\ c[1] < Max(a.x1, a.x2)
                     /\ Min(a.y1, a.y2) < c[2] /\ c[2] < Max(a.y1, a.y2)
                     /\ Min(a.z1, a.z2) < c[3] /\ c[3] < Max(a.z1, a.z2)}

(* C14: build-box passes to placeBlockAt exactly the surface coordinates  *)
(* of the bounding cuboid: no strictly interior coordinate, and every     *)
(* surface coordinate, each once.                                         *)
C14_BoxVisitsTheSurface ==
  \A i \in Iterated :
    LET a == inv[i].args
        q == inv[i].visited
    IN
    a.tool = "build-box" =>
      /\ Range(q) = Cuboid(a) \ Interior(a)
      /\ Distinct(q)

C14_Witness ==
  \E i \in Iterated :
    /\ inv[i].args.tool = "build-box"
    /\ Interior(inv[i].args) # {}
    /\ Len(inv[i].visited) = Cardinality(Cuboid(inv[i].args)) - 1

(* The same corner arguments with the two values of an axis exchanged. *)
Swapped(a, sx, sy, sz) ==
  [a EXCEPT !.x1 = IF sx THEN a.x2 ELSE a.x1, !.x2 = IF sx THEN a.x1 ELSE a.x2,
            !.y1 = IF sy THEN a.y2 ELSE a.y1, !.y2 = IF sy THEN a.y1 ELSE a.y2,
            !.z1 = IF sz THEN a.z2 ELSE a.z1, !.z2 = IF sz THEN a.z1 ELSE a.z2]

(* C15: build-box and fill-area do not depend on the order of the corners: *)
(* exchanging x1 with x2, y1 with y2 and z1 with z2, each independently,   *)
(* gives the identical coordinate sequence.                                *)
C15_CornerOrderIsIrrelevant ==
  \A i \in Iterated :
    LET a == inv[i].args IN
    a.tool \in {"build-box", "fill-area"} =>
      \A sx \in BOOLEAN, sy \in BOOLEAN, sz \in BOOLEAN :
        inv[i].visited = CoordSeq(Swapped(a, sx, sy, sz))

C15_Witness ==
  \E i \in Iterated :
    LET a == inv[i].args IN
    /\ a.tool = "fill-area"
    /\ a.x1 > a.x2 /\ a.y1 < a.y2 /\ a.z1 > a.z2
    /\ Len(inv[i].visited) > 1
    /\ inv[i].visited[1] = <<a.x2, a.y1, a.z2>>

(* The number of blocks of the cuboid along each axis. *)
Dimensions(a) ==
  <<Max(a.x1, a.x2) - Min(a.x1, a.x2) + 1,
    Max(a.y1, a.y2) - Min(a.y1, a.y2) + 1,
    Max(a.z1, a.z2) - Min(a.z1, a.z2) + 1>>

(* C16: fill-area visits (maxX-minX+1)*(maxY-minY+1)*(maxZ-minZ+1)        *)
(* pairwise distinct coordinates, the whole cuboid: a superset of what    *)
(* build-box visits for the same corners, and the same set when some      *)
(* dimension of the cuboid is at most 2.                                   *)
C16_FillVisitsTheWholeCuboid ==
  \A i \in Iterated :
    LET a   == inv[i].args
        q   == inv[i].visited
        box == Range(CoordSeq([a EXCEPT !.tool = "build-box"]))
        d   == Dimensions(a)
    IN
    a.tool = "fill-area" =>
      /\ Len(q) = d[1] * d[2] * d[3]
      /\ Distinct(q)
      /\ Range(q) = Cuboid(a)
      /\ box \subseteq Range(q)
      /\ (d[1] <= 2 \/ d[2] <= 2 \/ d[3] <= 2) => box = Range(q)

C16_Witness ==
  \E i \in Iterated :
    LET a == inv[i].args
        d == Dimensions(a)
    IN
    /\ a.tool = "fill-area"
    /\ d[1] = 3 /\ d[2] = 2 /\ d[3] = 3
    /\ Len(inv[i].visited) = 18
    /\ Len(CoordSeq([a EXCEPT !.tool = "build-box"])) = 18

(* The calls of one kind among the recorded calls of the current cell. *)
CallsOf(s, call) == {k \in 1..Len(s.calls) : s.calls[k].call = call}

(* The log entry just before the k-th one. *)
Before(s, k) == IF k = 1 THEN <<"none", 0, "none">> ELSE s.log[k - 1]

(* C17: in placeBlockAt the calls for one candidate face are, in order,   *)
(* goto(GoalNear(reference, 2)) only if the reference is not visible, then *)
(* lookAt(target), then placeBlock(reference, inverse of the face offset); *)
(* placeBlock is only issued against a reference at target + offset that   *)
(* was queried non-air in the same attempt; no goto is issued when the     *)
(* reference is visible; one placeBlockAt call issues at most six          *)
(* placeBlock calls and at most six goto calls.                            *)
C17_MoveThenLookThenPlace ==
  \A i \in Started :
    LET s == inv[i] IN
    (s.args.tool \in PlacementTools /\ InCell(s)) =>
      /\ \A k \in 1..Len(s.calls) :
           LET c   == s.calls[k]
               off == faces[c.face].vector
               ref == <<s.placePos[1] + off[1], s.placePos[2] + off[2],
                        s.placePos[3] + off[3]>>
           IN
           /\ c.face \in 1..Len(faces)
           /\ k > 1 => s.calls[k - 1].face <= c.face
           /\ <<"blockAt", c.face, "solid">> \in Range(s.log)
           /\ c.call \in {"goto", "lookAt", "placeBlock"}
           /\ c.call = "goto" =>
                /\ c.goal = [x |-> ref[1], y |-> ref[2], z |-> ref[3], range |-> 2]
                /\ <<"canSeeBlock", c.face, "no">> \in Range(s.log)
                /\ k > 1 => s.calls[k - 1].face < c.face
           /\ c.call = "lookAt" =>
                /\ c.point = s.placePos
                /\ IF <<"canSeeBlock", c.face, "no">> \in Range(s.log)
                     THEN k > 1 /\ s.calls[k - 1].call = "goto"
                                /\ s.calls[k - 1].face = c.face
                     ELSE k > 1 => s.calls[k - 1].face < c.face
           /\ c.call = "placeBlock" =>
                /\ k > 1
                /\ s.calls[k - 1].call = "lookAt"
                /\ s.calls[k - 1].face = c.face
                /\ c.referenceBlock = ref
                /\ c.faceVector = <<0 - off[1], 0 - off[2], 0 - off[3]>>
                /\ Plus(c.referenceBlock, c.faceVector) = s.placePos
      /\ \A k \in 1..Len(s.log) :
           LET e == s.log[k] IN
           /\ (e[1] = "goto" /\ e[3] = "issue") =>
                Before(s, k) = <<"canSeeBlock", e[2], "no">>
           /\ (e[1] = "lookAt" /\ e[3] = "issue") =>
                Before(s, k) \in {<<"canSeeBlock", e[2], "yes">>,
                                  <<"goto", e[2], "resolve">>}
           /\ (e[1] = "placeBlock" /\ e[3] = "issue") =>
                Before(s, k) = <<"lookAt", e[2], "resolve">>
           /\ e[1] = "canSeeBlock" => Before(s, k) = <<"blockAt", e[2], "solid">>
           /\ e = <<"canSeeBlock", e[2], "yes">> =>
                \A m \in CallsOf(s, "goto") : s.calls[m].face # e[2]
      /\ Cardinality(CallsOf(s, "placeBlock")) <= 6
      /\ Cardinality(CallsOf(s, "goto")) <= 6
      /\ \A k \in CallsOf(s, "placeBlock"), m \in CallsOf(s, "placeBlock") :
           s.calls[k].face = s.calls[m].face => k = m
      /\ \A k \in CallsOf(s, "goto"), m \in CallsOf(s, "goto") :
           s.calls[k].face = s.calls[m].face => k = m

C17_Witness ==
  \E i \in Started :
    LET s == inv[i] IN
    /\ s.args.tool \in PlacementTools
    /\ s.pc = "tally"
    /\ s.success
    /\ Len(s.calls) = 5
    /\ s.calls[1].call = "lookAt"
    /\ s.calls[2].call = "placeBlock"
    /\ s.calls[3].call = "goto"
    /\ s.calls[5].call = "placeBlock"
    /\ s.calls[5].faceVector = <<-1, 0, 0>>

(* What a step of clear-area invocation i does to the counters of a cell   *)
(* that was not air when queried: blocksDug + 1 if its dig resolves,       *)
(* blocksFailed + 1 if the goto or the dig raises, never both; goto is     *)
(* requested only when the block is not diggable or not visible; after a   *)
(* failed goto no dig is issued for the cell; the loop goes on to the next *)
(* cell in every case.                                                     *)
ClearStepCounts(i) ==
  LET s == inv[i]
      t == inv'[i]
      ends == t.pc \in {"loop", "done"} /\ s.pc \in {"loop", "goto", "dig"}
                /\ t.visited # <<>> /\ t.idx # s.idx
      last == t.log[Len(t.log)]
  IN
  (s.args.tool = "clear-area" /\ t # s /\ s.pc # "idle") =>
    /\ (ends /\ <<"blockAt", 0, "solid">> \in Range(t.log)) =>
         /\ t.blocksDug + t.blocksFailed = s.blocksDug + s.blocksFailed + 1
         /\ t.blocksDug = s.blocksDug + 1 <=> last = <<"dig", 0, "resolve">>
         /\ t.blocksFailed = s.blocksFailed + 1 <=>
              last \in {<<"goto", 0, "reject">>, <<"dig", 0, "reject">>}
         /\ last = <<"goto", 0, "reject">> => CallsOf(t, "dig") = {}
    /\ ~ends => (t.blocksDug = s.blocksDug /\ t.blocksFailed = s.blocksFailed)
    /\ (ends \/ s.pc = "loop") => t.visited[Len(t.visited)] \notin Range(s.visited)
                                    \/ t.visited = s.visited
    /\ ends => (t.pc = "loop" /\ t.idx = LoopStep(s.args, s.idx))
    /\ (t.pc = "goto") =>
         \/ <<"canDigBlock", 0, "no">> \in Range(t.log)
         \/ <<"canSeeBlock", 0, "no">> \in Range(t.log)
    /\ (t.pc = "dig" /\ s.pc = "loop") =>
         /\ <<"canDigBlock", 0, "yes">> \in Range(t.log)
         /\ <<"canSeeBlock", 0, "yes">> \in Range(t.log)

(* The clear-area invocations between two cells or done. *)
ClearBetweenCells ==
  {i \in Started : inv[i].args.tool = "clear-area" /\ inv[i].pc \in {"loop", "done"}}

(* C18 as stated: every coordinate that is non-air when queried adds one   *)
(* to exactly one counter (blocksDug if its dig resolves, blocksFailed if  *)
(* the goto or the dig raises), so blocksDug + blocksFailed is the number  *)
(* of non-air cells encountered; goto is requested only when the block is  *)
(* not diggable or not visible; a failed goto means no dig for that cell;  *)
(* the loop continues in every case.  The sum is what fails: the cells    *)
(* of the cuboid that were not air when the handler was called are the    *)
(* non-air cells it encounters, since only its own digs change the world. *)
C18_CountersSumToSolidCells ==
  \A i \in ClearBetweenCells :
    inv[i].blocksDug + inv[i].blocksFailed
      = Cardinality(inv[i].world0 \cap Range(inv[i].visited))

(* C18, amended: as stated, except that a cell whose blockAt query itself  *)
(* raises also adds one to blocksFailed, whatever the cell holds: every    *)
(* cell adds one to exactly one counter if its query returned a non-air    *)
(* block or raised, and nothing if its query returned air, so blocksDug +  *)
(* blocksFailed is the number of non-air cells encountered when no query   *)
(* raises, and never less.                                                 *)
C18_CountersSumToSolidOrUnqueriedCells ==
  /\ [][\A i \in Invs :
          /\ ClearStepCounts(i)
          /\ ( /\ inv[i].args.tool = "clear-area"
               /\ inv[i].pc = "loop" /\ inv[i].idx # END
               /\ inv'[i] # inv[i] ) =>
               LET s == inv[i]
                   t == inv'[i]
               IN
               /\ <<"blockAt", 0, "throw">> \in Range(t.log) =>
                    /\ t.blocksFailed = s.blocksFailed + 1
                    /\ t.blocksDug = s.blocksDug
                    /\ t.calls = <<>>
                    /\ t.pc = "loop" /\ t.idx = LoopStep(s.args, s.idx)
               /\ <<"blockAt", 0, "air">> \in Range(t.log) =>
                    /\ t.blocksFailed = s.blocksFailed
                    /\ t.blocksDug = s.blocksDug
               /\ <<"blockAt", 0, "solid">> \in Range(t.log)
                    <=> (t.visited[Len(t.visited)] \in world
                           /\ <<"blockAt", 0, "throw">> \notin Range(t.log)) ]_vars
  /\ [](\A i \in ClearBetweenCells :
          LET s == inv[i]
              n == Cardinality(s.world0 \cap Range(s.visited))
          IN
          /\ s.blocksDug + s.blocksFailed >= n
          /\ s.blocksDug + s.blocksFailed <= Len(s.visited)
          /\ ~s.raised => s.blocksDug + s.blocksFailed = n)

C18_Witness ==
  \E i \in ClearBetweenCells :
    LET s == inv[i] IN
    /\ s.pc = "done"
    /\ s.blocksDug = 1
    /\ s.blocksFailed = 2
    /\ Cardinality(s.world0 \cap Range(s.visited)) = 2
    /\ s.log = << <<"blockAt", 0, "throw">> >>

(* The counters of a handler's frame. *)
Counters(s) == <<s.blocksPlaced, s.blocksFailed, s.blocksDug>>

(* C19: with two invocations in flight at once on the same bot and world, *)
(* their steps interleaving at every await, each placement invocation's   *)
(* blocksPlaced + blocksFailed is still the number of coordinates it has   *)
(* finished, and the length of its own sequence when it is done; no step   *)
(* changes the counters of both, and a step that moves one invocation      *)
(* leaves the other's counters alone.                                      *)
C19_CountersArePerInvocation ==
  /\ [](\A i \in Started :
          LET s == inv[i] IN
          s.args.tool \in PlacementTools =>
            /\ s.blocksPlaced + s.blocksFailed
                 = Len(s.visited) - (IF InCell(s) THEN 1 ELSE 0)
            /\ s.pc = "done" =>
                 /\ Summary(s).blocksPlaced + Summary(s).blocksFailed
                      = Len(CoordSeq(s.args))
                 /\ Summary(s).blocksPlaced = s.blocksPlaced
                 /\ Summary(s).blocksFailed = s.blocksFailed)
  /\ [][\A i \in Invs, j \in Invs :
          (i # j /\ (inv'[i].pc # inv[i].pc \/ inv'[i].idx # inv[i].idx
                       \/ inv'[i].log # inv[i].log))
            => Counters(inv'[j]) = Counters(inv[j])]_vars

C19_Witness ==
  /\ inv[1].args.tool = "build-wall"
  /\ inv[2].args.tool = "fill-area"
  /\ inv[1].pc = "done" /\ inv[2].pc = "done"
  /\ ~inv[1].raised /\ ~inv[2].raised
  /\ inv[1].blocksPlaced = 1 /\ inv[1].blocksFailed = 1
  /\ inv[2].blocksPlaced = 0 /\ inv[2].blocksFailed = 2
  /\ inv[2].world0 = inv[1].world0
  /\ <<0, 0, 0>> \notin inv[2].world0

(* The cells a handler has finished. *)
Finished(s) ==
  {s.visited[k] : k \in 1..(Len(s.visited) - (IF InCell(s) THEN 1 ELSE 0))}

(* C20: when fill-area or build-box is run a second time right after the   *)
(* first run, in a world changed only by the first run's successful        *)
(* placeBlock calls, the second run issues no placeBlock (nor any other    *)
(* bot action) at a coordinate the first run placed, counts none of those  *)
(* coordinates as placed, and leaves their blocks in the world.            *)
C20_SecondRunSkipsPlacedCells ==
  \A i \in Started :
    LET s == inv[i] IN
    (s.run = 2 /\ s.args.tool \in {"fill-area", "build-box"}) =>
      /\ s.firstPlaced \subseteq world
      /\ (InCell(s) /\ s.placePos \in s.firstPlaced) =>
           /\ s.calls = <<>>
           /\ s.outstanding = {}
           /\ Range(s.log) \subseteq {<<"blockAt", 0, "solid">>, <<"blockAt", 0, "throw">>}
           /\ s.pc = "tally" => ~s.success
      /\ s.blocksPlaced <= Cardinality(Finished(s) \ s.firstPlaced)
      /\ s.blocksFailed >= Cardinality(Finished(s) \cap s.firstPlaced)
      /\ s.pc = "done" =>
           Summary(s).blocksPlaced <= Len(s.visited) - Cardinality(s.firstPlaced)

C20_Witness ==
  \E i \in Started :
    LET s == inv[i] IN
    /\ s.run = 2
    /\ s.args.tool = "fill-area"
    /\ s.pc = "done"
    /\ s.firstPlaced = {<<0, 0, 0>>}
    /\ Len(s.visited) = 3
    /\ Summary(s).blocksPlaced = 1
    /\ Summary(s).blocksFailed = 2
    /\ {<<0, 0, 0>>, <<2, 0, 0>>} \subseteq world

====
